---- MODULE Spec2Model ----
(***************************************************************************)
(* Model of the query optimizer of dbsys-hw3 (Query/Optimizer.py):         *)
(* selection pushdown (removeUnaryPlan, decompSelects, pushdownOperators)  *)
(* and System-R join ordering (obtainFieldDict, getExprDicts,              *)
(* pickJoinOrder, createExpression, combineSelects).                       *)
(*                                                                         *)
(* A plan is a root pointer into a heap of operator nodes; the rewriting   *)
(* passes mutate node links in place, as the Python code does.  A boolean  *)
(* expression is the sequence of its top-level conjuncts (the text joined  *)
(* by " and ").                                                            *)
(***************************************************************************)
EXTENDS Integers, Sequences, FiniteSets, TLC

\* ------------------------------------------------------------------ bounds
\* Size of the node heap: input plan nodes plus the Select nodes that
\* decompSelects allocates in up to two pushdown runs.
MaxNodes == 14
\* Costs the Cost Oracle may answer with: 1..MaxCost.
MaxCost == 2

\* ------------------------------------------------------- catalog and data
\* Python's None as a node pointer.
None == 0

Relations == {"employee", "department", "Iabc", "Idef", "Ighi"}

\* db.relationSchema(r).fields, as created in the Optimizer doctest.
Schema(r) ==
  CASE r = "department" -> <<"did", "eid">>
    [] r = "employee"   -> <<"id", "age">>
    [] r = "Iabc"       -> <<"a", "b", "c">>
    [] r = "Idef"       -> <<"d", "e", "f">>
    [] r = "Ighi"       -> <<"g", "h", "i">>

Range(s) == {s[i] : i \in DOMAIN s}

Fields(r) == Range(Schema(r))

\* Python's order on the relation identifiers (upper case sorts first).
RelOrd(r) ==
  CASE r = "Iabc" -> 1 [] r = "Idef" -> 2 [] r = "Ighi" -> 3
    [] r = "department" -> 4 [] r = "employee" -> 5

\* The relation whose scan defines an attribute.
RelOf(attr) == CHOOSE r \in Relations : attr \in Fields(r)

\* The rows stored in each relation.
Rows(r) ==
  CASE r = "employee"   -> << [id |-> 1, age |-> 2], [id |-> 0, age |-> 3],
                              [id |-> 6, age |-> 1] >>
    [] r = "department" -> << [did |-> 1, eid |-> 1], [did |-> 2, eid |-> 0],
                              [did |-> 3, eid |-> 6] >>
    [] r = "Iabc"       -> << [a |-> 1, b |-> 1, c |-> 0], [a |-> 0, b |-> 2, c |-> 1] >>
    [] r = "Idef"       -> << [d |-> 1, e |-> 2, f |-> 0], [d |-> 0, e |-> 1, f |-> 1] >>
    [] r = "Ighi"       -> << [g |-> 1, h |-> 2, i |-> 1], [g |-> 0, h |-> 1, i |-> 2] >>

\* ------------------------------------------------------------ expressions
\* The atomic predicates (conjuncts without a top-level "and") in use.
Atoms == {"id > 0", "eid > 0", "(eid == 5 or id == 6)", "id == eid",
          "id < age", "a == d", "b == i", "e == h", "True"}

\* ExpressionInfo(atom).getAttributes()
AtomAttrs(atom) ==
  CASE atom = "id > 0"                -> {"id"}
    [] atom = "eid > 0"               -> {"eid"}
    [] atom = "(eid == 5 or id == 6)" -> {"eid", "id"}
    [] atom = "id == eid"             -> {"id", "eid"}
    [] atom = "id < age"              -> {"id", "age"}
    [] atom = "a == d"                -> {"a", "d"}
    [] atom = "b == i"                -> {"b", "i"}
    [] atom = "e == h"                -> {"e", "h"}
    [] atom = "True"                  -> {}

\* The value of an atomic predicate on a row.
AtomHolds(atom, row) ==
  CASE atom = "id > 0"                -> row.id > 0
    [] atom = "eid > 0"               -> row.eid > 0
    [] atom = "(eid == 5 or id == 6)" -> row.eid = 5 \/ row.id = 6
    [] atom = "id == eid"             -> row.id = row.eid
    [] atom = "id < age"              -> row.id < row.age
    [] atom = "a == d"                -> row.a = row.d
    [] atom = "b == i"                -> row.b = row.i
    [] atom = "e == h"                -> row.e = row.h
    [] atom = "True"                  -> TRUE

\* ExpressionInfo(expr).getAttributes(): the attributes an expression names.
getAttributes(expr) == UNION {AtomAttrs(expr[i]) : i \in DOMAIN expr}

\* ExpressionInfo(expr).decomposeCNF(): one expression per top-level conjunct.
decomposeCNF(expr) == [i \in DOMAIN expr |-> <<expr[i]>>]

ExprHolds(expr, row) == \A i \in DOMAIN expr : AtomHolds(expr[i], row)

\* The base relations an expression's attributes belong to.
ExprRels(expr) == {RelOf(x) : x \in getAttributes(expr)}

\* ------------------------------------------------------------- plan nodes
FreeNode ==
  [op |-> "Free", subPlan |-> None, lhsPlan |-> None, rhsPlan |-> None,
   expr |-> <<>>, rel |-> "", method |-> ""]

TableScan(r) == [FreeNode EXCEPT !.op = "TableScan", !.rel = r]

Select(sub, e) == [FreeNode EXCEPT !.op = "Select", !.subPlan = sub, !.expr = e]

\* Project keeps the attributes listed in its expr field.
Project(sub, attrs) == [FreeNode EXCEPT !.op = "Project", !.subPlan = sub, !.expr = attrs]

Sort(sub) == [FreeNode EXCEPT !.op = "Sort", !.subPlan = sub]

GroupBy(sub) == [FreeNode EXCEPT !.op = "GroupBy", !.subPlan = sub]

Join(l, r, e, m) ==
  [FreeNode EXCEPT !.op = IF m = "nested-loops" THEN "NLJoin" ELSE "BNLJoin",
                   !.lhsPlan = l, !.rhsPlan = r, !.expr = e, !.method = m]

Union(l, r) == [FreeNode EXCEPT !.op = "UnionAll", !.lhsPlan = l, !.rhsPlan = r]

\* A heap holding the given nodes at 1..Len(nodes), the rest free.
Heap(nodes) ==
  [i \in 1..MaxNodes |-> IF i <= Len(nodes) THEN nodes[i] ELSE FreeNode]

\* currNode.inputs()
inputs(h, n) ==
  CASE h[n].op = "TableScan" -> <<>>
    [] h[n].op \in {"Select", "Project", "Sort", "GroupBy"} -> <<h[n].subPlan>>
    [] OTHER -> <<h[n].lhsPlan, h[n].rhsPlan>>

\* The nodes reachable from n (n itself included).
RECURSIVE Reach(_, _)
Reach(h, n) ==
  IF n = None THEN {}
  ELSE {n} \cup UNION {Reach(h, inputs(h, n)[i]) : i \in DOMAIN inputs(h, n)}

\* ---------------------------------------------------------- plan execution
\* The rows a plan produces, as a sequence; plans are compared as multisets.
Restrict(row, attrs) == [x \in (DOMAIN row \cap Range(attrs)) |-> row[x]]

RECURSIVE Dedupe(_)
Dedupe(s) ==
  IF s = <<>> THEN <<>>
  ELSE LET rest == Dedupe(Tail(s))
       IN IF Head(s) \in Range(rest) THEN rest ELSE <<Head(s)>> \o rest

RECURSIVE Eval(_, _)
Eval(h, n) ==
  LET nd == h[n] IN
  CASE nd.op = "TableScan" -> Rows(nd.rel)
    [] nd.op = "Select" ->
         LET Test(row) == ExprHolds(nd.expr, row)
         IN SelectSeq(Eval(h, nd.subPlan), Test)
    [] nd.op = "Project" ->
         LET s == Eval(h, nd.subPlan)
         IN [k \in DOMAIN s |-> Restrict(s[k], nd.expr)]
    [] nd.op = "Sort" -> Eval(h, nd.subPlan)
    [] nd.op = "GroupBy" -> Dedupe(Eval(h, nd.subPlan))
    [] nd.op = "UnionAll" -> Eval(h, nd.lhsPlan) \o Eval(h, nd.rhsPlan)
    [] OTHER ->
         LET l == Eval(h, nd.lhsPlan)
             r == Eval(h, nd.rhsPlan)
             pairs == [k \in 1..(Len(l) * Len(r)) |->
                         l[((k - 1) \div Len(r)) + 1] @@ r[((k - 1) % Len(r)) + 1]]
             Test(row) == ExprHolds(nd.expr, row)
         IN SelectSeq(pairs, Test)

Count(x, s) == Cardinality({k \in DOMAIN s : s[k] = x})

SameRows(s, t) == \A x \in Range(s) \cup Range(t) : Count(x, s) = Count(x, t)

\* ------------------------------------------------------------- input plans
\* Plans handed to pushdownOperators.  Node i of a plan is heap cell i.
PushdownInputs == <<
  \* queries.py query1: a bare scan, no Select
  [root |-> 1, heap |-> Heap(<< TableScan("employee") >>)],
  \* a Select directly above a scan
  [root |-> 1, heap |-> Heap(<< Select(2, <<"id > 0">>), TableScan("employee") >>)],
  \* the doctest's query6 without the union: a Select above a two-relation join
  [root |-> 1, heap |-> Heap(<<
     Select(2, <<"eid > 0", "id > 0", "(eid == 5 or id == 6)">>),
     Join(3, 4, <<"id == eid">>, "block-nested-loops"),
     TableScan("employee"), TableScan("department") >>)],
  \* the doctest's query6: employee union employee, joined with department
  [root |-> 1, heap |-> Heap(<<
     Select(2, <<"eid > 0", "id > 0", "(eid == 5 or id == 6)">>),
     Join(3, 6, <<"id == eid">>, "block-nested-loops"),
     Union(4, 5), TableScan("employee"), TableScan("employee"),
     TableScan("department") >>)],
  \* the doctest's query5: a Project above query6
  [root |-> 1, heap |-> Heap(<<
     Project(2, <<"id", "eid">>),
     Select(3, <<"eid > 0", "id > 0", "(eid == 5 or id == 6)">>),
     Join(4, 7, <<"id == eid">>, "block-nested-loops"),
     Union(5, 6), TableScan("employee"), TableScan("employee"),
     TableScan("department") >>)],
  \* a Select above a Project
  [root |-> 1, heap |-> Heap(<<
     Select(2, <<"id > 0">>), Project(3, <<"id">>), TableScan("employee") >>)],
  \* two Selects, one above the other
  [root |-> 1, heap |-> Heap(<<
     Select(2, <<"id > 0">>), Select(3, <<"id < age">>), TableScan("employee") >>)],
  \* two Selects in different places: above the join and above a scan
  [root |-> 1, heap |-> Heap(<<
     Select(2, <<"eid > 0">>),
     Join(3, 5, <<"id == eid">>, "block-nested-loops"),
     Select(4, <<"id < age">>), TableScan("employee"), TableScan("department") >>)],
  \* a join whose left input is a Select directly above a scan
  [root |-> 1, heap |-> Heap(<<
     Join(2, 4, <<"id == eid">>, "nested-loops"),
     Select(3, <<"id > 0">>), TableScan("employee"), TableScan("department") >>)],
  \* a conjunct naming two attributes of one relation
  [root |-> 1, heap |-> Heap(<<
     Select(2, <<"id < age", "eid > 0">>),
     Join(3, 4, <<"id == eid">>, "block-nested-loops"),
     TableScan("employee"), TableScan("department") >>)],
  \* a Select above Sort and GroupBy
  [root |-> 1, heap |-> Heap(<<
     Select(2, <<"id > 0">>), Sort(3), GroupBy(4), TableScan("employee") >>)],
  \* a Select above a union of two scans
  [root |-> 1, heap |-> Heap(<<
     Select(2, <<"id > 0">>), Union(3, 4),
     TableScan("employee"), TableScan("employee") >>)]
>>

\* ------------------------------------------------------------------ state
VARIABLES
  entry,        \* the entry point called: "pushdownOperators" or "pickJoinOrder"
  input,        \* the plan handed to the call: [root, heap]
  heap, root,   \* the plan being rewritten (plan.root and the nodes it reaches)
  pc,           \* position in the running call
  err,          \* the exception raised, "" when none
  run,          \* which pushdownOperators call is running (1 or 2)
  out1,         \* the plan returned by the first pushdownOperators call
  q,            \* removeUnaryPlan's stack of (currNode, pNode, sub)
  selectList,   \* the Select nodes removeUnaryPlan removed
  fieldDict,    \* attribute -> (pNode, sub)
  decompList,   \* decompSelects' result: [none, list]
  di,           \* index of the next element of decompList to place
  relations,    \* pickJoinOrder: plan.relations()
  joinTablesDict,   \* sorted relation tuple -> join expressions
  selectTablesDict, \* sorted relation tuple -> select expressions
  optDict,      \* the memo: sorted relation tuple -> best plan
  npass,        \* the pass of the dynamic program
  combos,       \* the combinations of this pass still to process
  ri,           \* index of the next relation (pass 1) or split (pass n) to try
  bestJoin,     \* the best candidate so far for the current combination
  cands,        \* the candidates costed for the current combination
  result        \* what pickJoinOrder returned

pushVars == <<heap, root, run, out1, q, selectList, fieldDict, decompList, di>>

pickVars == <<relations, joinTablesDict, selectTablesDict, optDict, npass, combos,
              ri, bestJoin, cands, result>>

vars == <<entry, input, pc, err, pushVars, pickVars>>

\* The empty dict.
EmptyDict == [x \in {} |-> x]

NoPlan == [root |-> None, heap |-> Heap(<<>>)]

\* ------------------------------------------------------ pushdownOperators
\* removeUnaryPlan, lines 82-85: the state at the head of the loop.
StartPushdown(p) ==
  /\ heap = p.heap
  /\ root = p.root
  /\ q = << [node |-> p.root, pNode |-> None, sub |-> ""] >>
  /\ selectList = <<>>
  /\ fieldDict = EmptyDict
  /\ decompList = [none |-> TRUE, list |-> <<>>]
  /\ di = 1

Top == q[Len(q)]

Pop == SubSeq(q, 1, Len(q) - 1)

Item(n, p, s) == [node |-> n, pNode |-> p, sub |-> s]

\* The parent link that a removed Select's child is spliced into (lines 92-99).
Splice(h, pNode, sub, child) ==
  CASE sub = "only"  -> [h EXCEPT ![pNode].subPlan = child]
    [] sub = "left"  -> [h EXCEPT ![pNode].lhsPlan = child]
    [] sub = "right" -> [h EXCEPT ![pNode].rhsPlan = child]
    [] OTHER -> h

\* One iteration of removeUnaryPlan's loop on a Select node.
RemoveSelect ==
  /\ pc = "remove" /\ q # <<>> /\ heap[Top.node].op = "Select"
  /\ selectList' = Append(selectList, Top.node)
  /\ q' = Append(Pop, Item(heap[Top.node].subPlan, Top.node, "only"))
  /\ heap' = Splice(heap, Top.pNode, Top.sub, heap[Top.node].subPlan)
  /\ root' = IF Top.sub \in {"only", "left", "right"} THEN root
             ELSE heap[Top.node].subPlan
  /\ UNCHANGED <<pickVars, entry, input, pc, err, run, out1, fieldDict, decompList, di>>

\* ... on a Project node: nothing below it is visited.
RemoveProject ==
  /\ pc = "remove" /\ q # <<>> /\ heap[Top.node].op = "Project"
  /\ q' = Pop
  /\ UNCHANGED <<pickVars, entry, input, pc, err, heap, root, run, out1, selectList,
                 fieldDict, decompList, di>>

\* ... on a TableScan node: its fields' attach point is recorded.
RemoveTableScan ==
  /\ pc = "remove" /\ q # <<>> /\ heap[Top.node].op = "TableScan"
  /\ fieldDict' = [f \in Fields(heap[Top.node].rel) |->
                     [pNode |-> Top.pNode, sub |-> Top.sub]] @@ fieldDict
  /\ q' = Pop
  /\ UNCHANGED <<pickVars, entry, input, pc, err, heap, root, run, out1, selectList,
                 decompList, di>>

\* ... on a GroupBy or Sort node.
RemoveGroupBySort ==
  /\ pc = "remove" /\ q # <<>> /\ heap[Top.node].op \in {"GroupBy", "Sort"}
  /\ q' = Append(Pop, Item(heap[Top.node].subPlan, Top.node, "only"))
  /\ UNCHANGED <<pickVars, entry, input, pc, err, heap, root, run, out1, selectList,
                 fieldDict, decompList, di>>

\* ... on a join or union node.
RemoveJoinUnion ==
  /\ pc = "remove" /\ q # <<>>
  /\ heap[Top.node].op \notin {"Select", "Project", "TableScan", "GroupBy", "Sort"}
  /\ q' = Pop \o << Item(heap[Top.node].lhsPlan, Top.node, "left"),
                    Item(heap[Top.node].rhsPlan, Top.node, "right") >>
  /\ UNCHANGED <<pickVars, entry, input, pc, err, heap, root, run, out1, selectList,
                 fieldDict, decompList, di>>

\* The free heap cells, lowest first.
FreeCells(h) == {i \in DOMAIN h : h[i].op = "Free"}

RECURSIVE Lowest(_, _)
Lowest(S, k) ==
  IF k = 0 THEN <<>>
  ELSE LET m == CHOOSE x \in S : \A y \in S : x <= y
       IN <<m>> \o Lowest(S \ {m}, k - 1)

\* decompSelects' result for selectList: None when the loop body never runs,
\* otherwise the conjuncts of the first Select (the return sits in the loop).
decompSelects(h, sl) ==
  IF sl = <<>> THEN [none |-> TRUE, exprs |-> <<>>]
  ELSE [none |-> FALSE, exprs |-> decomposeCNF(h[sl[1]].expr)]

\* removeUnaryPlan returns; decompSelects builds a Select(None, e) per conjunct.
DecompSelects ==
  /\ pc = "remove" /\ q = <<>>
  /\ LET d == decompSelects(heap, selectList)
         n == Len(d.exprs)
     IN /\ Cardinality(FreeCells(heap)) >= n
        /\ LET cells == Lowest(FreeCells(heap), n)
           IN /\ heap' = [i \in DOMAIN heap |->
                            IF \E k \in 1..n : cells[k] = i
                            THEN Select(None, d.exprs[CHOOSE k \in 1..n : cells[k] = i])
                            ELSE heap[i]]
              /\ decompList' = [none |-> d.none, list |-> cells]
  /\ pc' = "place"
  /\ di' = 1
  /\ UNCHANGED <<pickVars, entry, input, err, root, run, out1, q, selectList, fieldDict>>

\* for s in decompList, with decompList = None: TypeError.
PlaceRaiseTypeError ==
  /\ pc = "place" /\ decompList.none
  /\ pc' = "raised" /\ err' = "TypeError"
  /\ UNCHANGED <<pickVars, entry, input, pushVars>>

\* Whether a conjunct is pushed to an attach point (line 135).
isSingle(attrList) == Cardinality(attrList) = 1

\* fieldDict[attr] for an attribute no visited scan defines: KeyError.
PlaceRaiseKeyError ==
  /\ pc = "place" /\ ~decompList.none /\ di <= Len(decompList.list)
  /\ LET attrList == getAttributes(heap[decompList.list[di]].expr)
     IN isSingle(attrList) /\ attrList \cap DOMAIN fieldDict = {}
  /\ pc' = "raised" /\ err' = "KeyError"
  /\ UNCHANGED <<pickVars, entry, input, pushVars>>

\* One iteration of pushdownOperators' loop (lines 133-152).
PlaceSelect ==
  /\ pc = "place" /\ ~decompList.none /\ di <= Len(decompList.list)
  /\ LET s == decompList.list[di]
         attrList == getAttributes(heap[s].expr)
     IN IF isSingle(attrList)
        THEN /\ attrList \subseteq DOMAIN fieldDict
             /\ LET at == fieldDict[CHOOSE x \in attrList : TRUE]
                    p == at.pNode
                IN CASE at.sub = "only" ->
                          /\ heap' = [heap EXCEPT ![s].subPlan = heap[p].subPlan,
                                                  ![p].subPlan = s]
                          /\ root' = root
                     [] at.sub = "left" ->
                          /\ heap' = [heap EXCEPT ![s].subPlan = heap[p].lhsPlan,
                                                  ![p].lhsPlan = s]
                          /\ root' = root
                     [] at.sub = "right" ->
                          /\ heap' = [heap EXCEPT ![s].subPlan = heap[p].rhsPlan,
                                                  ![p].rhsPlan = s]
                          /\ root' = root
                     [] OTHER ->
                          /\ heap' = [heap EXCEPT ![s].subPlan = root]
                          /\ root' = s
        ELSE /\ heap' = [heap EXCEPT ![s].subPlan = root]
             /\ root' = s
  /\ di' = di + 1
  /\ UNCHANGED <<pickVars, entry, input, pc, err, run, out1, q, selectList, fieldDict, decompList>>

\* return removedPlan
PushdownReturn ==
  /\ pc = "place" /\ ~decompList.none /\ di > Len(decompList.list)
  /\ pc' = "done"
  /\ out1' = IF run = 1 THEN [root |-> root, heap |-> heap] ELSE out1
  /\ UNCHANGED <<pickVars, entry, input, err, heap, root, run, q, selectList, fieldDict,
                 decompList, di>>

\* pushdownOperators is called again, on the plan the first call returned.
PushdownAgain ==
  /\ entry = "pushdownOperators" /\ pc = "done" /\ run = 1
  /\ run' = 2
  /\ pc' = "remove"
  /\ q' = << Item(root, None, "") >>
  /\ selectList' = <<>>
  /\ fieldDict' = EmptyDict
  /\ decompList' = [none |-> TRUE, list |-> <<>>]
  /\ di' = 1
  /\ UNCHANGED <<pickVars, entry, input, err, heap, root, out1>>

\* ---------------------------------------------------------- pickJoinOrder
\* Plans handed to pickJoinOrder.
PickInputs == <<
  \* a plan without a root operator: its relation set is empty
  NoPlan,
  \* the doctest's query4
  [root |-> 1, heap |-> Heap(<<
     Join(2, 3, <<"id == eid">>, "block-nested-loops"),
     TableScan("employee"), TableScan("department") >>)],
  \* the doctest's first query, on three relations
  [root |-> 1, heap |-> Heap(<<
     Join(2, 5, <<"b == i", "e == h">>, "block-nested-loops"),
     Join(3, 4, <<"a == d">>, "block-nested-loops"),
     TableScan("Iabc"), TableScan("Idef"), TableScan("Ighi") >>)],
  \* three relations, no predicate between Iabc and Ighi
  [root |-> 1, heap |-> Heap(<<
     Join(2, 5, <<"e == h">>, "block-nested-loops"),
     Join(3, 4, <<"a == d">>, "block-nested-loops"),
     TableScan("Iabc"), TableScan("Idef"), TableScan("Ighi") >>)],
  \* a single relation with one filter
  [root |-> 1, heap |-> Heap(<< Select(2, <<"id > 0">>), TableScan("employee") >>)],
  \* a single relation without filter
  [root |-> 1, heap |-> Heap(<< TableScan("employee") >>)],
  \* a two-relation Select above a join
  [root |-> 1, heap |-> Heap(<<
     Select(2, <<"(eid == 5 or id == 6)">>),
     Join(3, 4, <<"id == eid">>, "block-nested-loops"),
     TableScan("employee"), TableScan("department") >>)],
  \* a pushed-down plan: a filtered scan under a join
  [root |-> 1, heap |-> Heap(<<
     Join(2, 4, <<"id == eid">>, "block-nested-loops"),
     Select(3, <<"id > 0">>), TableScan("employee"), TableScan("department") >>)]
>>

\* The operators of the plans pickJoinOrder builds: a node with its inputs.
NoTree == [op |-> "None", rel |-> "", expr |-> <<>>, method |-> "", kids |-> <<>>]

PlanTableScan(r) == [NoTree EXCEPT !.op = "TableScan", !.rel = r]

PlanSelect(sub, e) == [NoTree EXCEPT !.op = "Select", !.expr = e, !.kids = <<sub>>]

PlanJoin(l, r, e, m) ==
  [NoTree EXCEPT !.op = "Join", !.expr = e, !.method = m, !.kids = <<l, r>>]

\* sorted(list) on relation identifiers.
RECURSIVE sorted(_)
sorted(s) ==
  IF s = <<>> THEN <<>>
  ELSE LET k == CHOOSE i \in DOMAIN s : \A j \in DOMAIN s :
                   RelOrd(s[i]) < RelOrd(s[j]) \/ (RelOrd(s[i]) = RelOrd(s[j]) /\ i <= j)
       IN <<s[k]>> \o sorted(SubSeq(s, 1, k - 1) \o SubSeq(s, k + 1, Len(s)))

RECURSIVE SetToSeq(_)
SetToSeq(S) ==
  IF S = {} THEN <<>>
  ELSE LET x == CHOOSE y \in S : TRUE IN <<x>> \o SetToSeq(S \ {x})

\* itertools.combinations(s, k), in the order Python yields them.
RECURSIVE combinations(_, _)
combinations(s, k) ==
  IF k = 0 THEN << <<>> >>
  ELSE IF Len(s) < k THEN <<>>
  ELSE LET with == combinations(Tail(s), k - 1)
       IN [j \in DOMAIN with |-> <<Head(s)>> \o with[j]] \o combinations(Tail(s), k)

RECURSIVE Flatten(_)
Flatten(ss) == IF ss = <<>> THEN <<>> ELSE Head(ss) \o Flatten(Tail(ss))

\* The order in which a stack traversal from n pops the nodes: a node, then its
\* right input's subtree, then its left input's.
RECURSIVE traverse(_, _)
traverse(h, n) ==
  IF n = None THEN <<>>
  ELSE LET ins == inputs(h, n)
       IN <<n>> \o Flatten([k \in DOMAIN ins |-> traverse(h, ins[Len(ins) + 1 - k])])

\* A traversal that guards against a missing root.
traverseRaises_guarded(n) == FALSE

\* The traversals call currNode.operatorType() on the popped root: with a root
\* of None this raises AttributeError.
traverseRaises(n) == n = None

\* plan.relations(): the base relations of the plan's scans.
planRelations(h, n) ==
  sorted(SetToSeq({h[t].rel : t \in {x \in Reach(h, n) : h[x].op = "TableScan"}}))

\* obtainFieldDict: attribute -> relationId of the scan that defines it.
obtainFieldDict(h, n) ==
  LET scans == {t \in Range(traverse(h, n)) : h[t].op = "TableScan"}
      attrs == UNION {Fields(h[t].rel) : t \in scans}
  IN [x \in attrs |-> CHOOSE r \in {h[t].rel : t \in scans} : x \in Fields(r)]

\* dict[key].append(v), creating the list when the key is new.
DictAppend(d, key, v) ==
  IF key \in DOMAIN d THEN [d EXCEPT ![key] = Append(@, v)]
  ELSE (key :> <<v>>) @@ d

\* tuple(sorted(sourceList)) for the attributes of an expression.
sourceTuple(fd, expr) == sorted(SetToSeq({fd[x] : x \in getAttributes(expr)}))

\* getExprDicts, the Select branch, folded over the traversal order.
RECURSIVE selectDictOf(_, _, _)
selectDictOf(h, fd, nodes) ==
  IF nodes = <<>> THEN EmptyDict
  ELSE LET d == selectDictOf(h, fd, SubSeq(nodes, 1, Len(nodes) - 1))
           n == nodes[Len(nodes)]
       IN IF h[n].op = "Select"
          THEN DictAppend(d, sourceTuple(fd, h[n].expr), h[n].expr)
          ELSE d

\* getExprDicts, the inner loop over a join's conjuncts: each conjunct's
\* relation tuple receives the node's whole joinExpr (line 211).
RECURSIVE joinConjuncts(_, _, _, _)
joinConjuncts(d, fd, joinExpr, exprList) ==
  IF exprList = <<>> THEN d
  ELSE joinConjuncts(DictAppend(d, sourceTuple(fd, Head(exprList)), joinExpr),
                     fd, joinExpr, Tail(exprList))

\* getExprDicts, the Join branch, folded over the traversal order.
RECURSIVE joinDictOf(_, _, _)
joinDictOf(h, fd, nodes) ==
  IF nodes = <<>> THEN EmptyDict
  ELSE LET d == joinDictOf(h, fd, SubSeq(nodes, 1, Len(nodes) - 1))
           n == nodes[Len(nodes)]
       IN IF h[n].op \in {"BNLJoin", "NLJoin"}
          THEN joinConjuncts(d, fd, h[n].expr, decomposeCNF(h[n].expr))
          ELSE d

getExprDicts(h, n, fd) ==
  [joinTablesDict |-> joinDictOf(h, fd, traverse(h, n)),
   selectTablesDict |-> selectDictOf(h, fd, traverse(h, n))]

\* combineSelects: the expressions joined by " and ".
combineSelects(selectExprs) == Flatten(selectExprs)

\* All non-empty combinations of a list, by size (lines 287-292).
allCombos(l) == Flatten([k \in 1..Len(l) |-> combinations(l, k)])

\* createExpression's masterlist: item1.extend(item2) grows the same left list
\* for each right combination it is paired with.
masterlist(lList, rList) ==
  LET lcombos == allCombos(lList)
      rcombos == allCombos(rList)
  IN Flatten([a \in DOMAIN lcombos |->
               [b \in DOMAIN rcombos |->
                  sorted(lcombos[a] \o Flatten(SubSeq(rcombos, 1, b)))]])

createExpression(lList, rList, exprDict) ==
  LET ml == masterlist(lList, rList)
      exprString == Flatten([k \in DOMAIN ml |->
                      IF ml[k] \in DOMAIN exprDict THEN Flatten(exprDict[ml[k]])
                      ELSE <<>>])
  IN IF exprString = <<>> THEN <<"True">> ELSE exprString

\* temp.pop(0) in place of temp.remove(rel).
remove_first(l, x) == Tail(l)

\* temp = list(clist); temp.remove(rel)
remove(l, x) ==
  LET k == CHOOSE i \in DOMAIN l : l[i] = x /\ \A j \in 1..(i - 1) : l[j] # x
  IN SubSeq(l, 1, k - 1) \o SubSeq(l, k + 1, Len(l))

\* The best candidate without the comparison against bestJoin.
pickBest_lastSplit(best, bestCost, bnlj, cb, nlj, cn) ==
  IF cb < cn THEN bnlj ELSE nlj

\* Lines 267-272: the cheaper method variant replaces bestJoin when it is
\* strictly cheaper (or bestJoin is None).
pickBest(best, bestCost, bnlj, cb, nlj, cn) ==
  IF cb < cn
  THEN IF best = NoTree \/ cb < bestCost THEN bnlj ELSE best
  ELSE IF best = NoTree \/ cn < bestCost THEN nlj ELSE best

\* The cost the oracle gave a candidate of the current combination.
CostOf(plan) ==
  IF plan = NoTree THEN 0 ELSE (CHOOSE c \in cands : c.plan = plan).cost

StartPick(p) ==
  /\ relations = <<>>
  /\ joinTablesDict = EmptyDict
  /\ selectTablesDict = EmptyDict
  /\ optDict = EmptyDict
  /\ npass = 0
  /\ combos = <<>>
  /\ ri = 1
  /\ bestJoin = NoTree
  /\ cands = {}
  /\ result = NoTree

\* Lines 228-230 on a plan without root: the traversal raises.
PickRaiseAttributeError ==
  /\ entry = "pickJoinOrder" /\ pc = "start"
  /\ traverseRaises(input.root)
  /\ pc' = "raised" /\ err' = "AttributeError"
  /\ UNCHANGED <<entry, input, pushVars, pickVars>>

\* Lines 228-235: relations, fieldDict, the two expression dicts, empty memo.
PickStart ==
  /\ entry = "pickJoinOrder" /\ pc = "start"
  /\ ~traverseRaises(input.root)
  /\ relations' = planRelations(input.heap, input.root)
  /\ LET fd == obtainFieldDict(input.heap, input.root)
         dicts == getExprDicts(input.heap, input.root, fd)
     IN /\ joinTablesDict' = dicts.joinTablesDict
        /\ selectTablesDict' = dicts.selectTablesDict
  /\ optDict' = EmptyDict
  /\ pc' = "loop"
  /\ UNCHANGED <<entry, input, err, pushVars, npass, combos, ri, bestJoin, cands, result>>

\* for npass in range(1, len(relations) + 1): the next pass begins.
NextPass ==
  /\ pc = "loop" /\ npass < Len(relations)
  /\ npass' = npass + 1
  /\ combos' = IF npass + 1 = 1 THEN <<>> ELSE combinations(relations, npass + 1)
  /\ ri' = 1
  /\ bestJoin' = NoTree
  /\ pc' = IF npass + 1 = 1 THEN "pass1" ELSE "passN"
  /\ UNCHANGED <<entry, input, err, pushVars, relations, joinTablesDict,
                 selectTablesDict, optDict, cands, result>>

\* Pass 1, a relation with select expressions: the call of the unbound name
\* combineSelects (line 243) raises NameError.
Pass1RaiseNameError ==
  /\ pc = "pass1" /\ ri <= Len(relations)
  /\ <<relations[ri]>> \in DOMAIN selectTablesDict
  /\ pc' = "raised" /\ err' = "NameError"
  /\ UNCHANGED <<entry, input, pushVars, pickVars>>

\* Pass 1, a relation without select expressions (line 247).
Pass1TableScan ==
  /\ pc = "pass1" /\ ri <= Len(relations)
  /\ <<relations[ri]>> \notin DOMAIN selectTablesDict
  /\ optDict' = (<<relations[ri]>> :> PlanTableScan(relations[ri])) @@ optDict
  /\ ri' = ri + 1
  /\ UNCHANGED <<entry, input, pc, err, pushVars, relations, joinTablesDict,
                 selectTablesDict, npass, combos, bestJoin, cands, result>>

\* The inner loop of a pass is over.
PassEnd ==
  /\ \/ pc = "pass1" /\ ri > Len(relations)
     \/ pc = "passN" /\ combos = <<>>
  /\ pc' = "loop"
  /\ cands' = {}
  /\ UNCHANGED <<entry, input, err, pushVars, relations, joinTablesDict,
                 selectTablesDict, optDict, npass, combos, ri, bestJoin, result>>

\* Pass n, one split (clist \ {rel}, rel) of the current combination: both
\* method variants are built and costed, bestJoin is updated (lines 253-272).
JoinCandidates ==
  /\ pc = "passN" /\ combos # <<>> /\ ri <= npass
  /\ LET clist == sorted(Head(combos))
         rel == clist[ri]
         temp == remove(clist, rel)
         leftOps == optDict[temp]
         rightOps == optDict[<<rel>>]
         joinExpr == createExpression(temp, <<rel>>, joinTablesDict)
         joinBnlj == PlanJoin(leftOps, rightOps, joinExpr, "block-nested-loops")
         joinNlj == PlanJoin(leftOps, rightOps, joinExpr, "nested-loops")
         old == IF ri = 1 THEN {} ELSE cands
     IN \E cb, cn \in 1..MaxCost :
          /\ cands' = old \cup
               { [key |-> clist, rel |-> rel, plan |-> joinBnlj, cost |-> cb],
                 [key |-> clist, rel |-> rel, plan |-> joinNlj, cost |-> cn] }
          /\ bestJoin' = pickBest(bestJoin, CostOf(bestJoin), joinBnlj, cb, joinNlj, cn)
  /\ ri' = ri + 1
  /\ UNCHANGED <<entry, input, pc, err, pushVars, relations, joinTablesDict,
                 selectTablesDict, optDict, npass, combos, result>>

\* optDict[tuple(clist)] = bestJoin (line 273).
StoreBest ==
  /\ pc = "passN" /\ combos # <<>> /\ ri > npass
  /\ optDict' = (sorted(Head(combos)) :> bestJoin) @@ optDict
  /\ combos' = Tail(combos)
  /\ ri' = 1
  /\ bestJoin' = NoTree
  /\ UNCHANGED <<entry, input, pc, err, pushVars, relations, joinTablesDict,
                 selectTablesDict, npass, cands, result>>

\* The loop is over and the function ends without a return statement.
PickReturn ==
  /\ entry = "pickJoinOrder" /\ pc = "loop" /\ npass >= Len(relations)
  /\ pc' = "done"
  /\ result' = NoTree
  /\ UNCHANGED <<entry, input, err, pushVars, relations, joinTablesDict,
                 selectTablesDict, optDict, npass, combos, ri, bestJoin, cands>>

\* ---------------------------------------------------------- specification
Init ==
  /\ err = ""
  /\ run = 1
  /\ out1 = NoPlan
  /\ \/ /\ entry = "pushdownOperators"
        /\ \E k \in DOMAIN PushdownInputs : input = PushdownInputs[k]
        /\ pc = "remove"
     \/ /\ entry = "pickJoinOrder"
        /\ \E k \in DOMAIN PickInputs : input = PickInputs[k]
        /\ pc = "start"
  /\ StartPushdown(input)
  /\ StartPick(input)

Next ==
  \/ RemoveSelect
  \/ RemoveProject
  \/ RemoveTableScan
  \/ RemoveGroupBySort
  \/ RemoveJoinUnion
  \/ DecompSelects
  \/ PlaceRaiseTypeError
  \/ PlaceRaiseKeyError
  \/ PlaceSelect
  \/ PushdownReturn
  \/ PushdownAgain
  \/ PickRaiseAttributeError
  \/ PickStart
  \/ NextPass
  \/ Pass1RaiseNameError
  \/ Pass1TableScan
  \/ PassEnd
  \/ JoinCandidates
  \/ StoreBest
  \/ PickReturn

Spec == Init /\ [][Next]_vars

\* --------------------------------------------------- claims on the pushdown
\* The node a chain of Selects starting at n ends in.
RECURSIVE Below(_, _)
Below(h, n) ==
  IF n # None /\ h[n].op = "Select" THEN Below(h, h[n].subPlan) ELSE n

\* The Select nodes of the plan (h, r).
SelectsOf(h, r) == {n \in Reach(h, r) : h[n].op = "Select"}

\* Select s of plan (h, r) applies atom c directly above node t (only Selects
\* lie between s and t).
AppliesAbove(h, r, c, t) ==
  \E s \in SelectsOf(h, r) :
     /\ c \in Range(h[s].expr)
     /\ Below(h, h[s].subPlan) = t

\* All conjuncts of the Selects in sl, in order, one expression each.
RECURSIVE AllConjuncts(_, _)
AllConjuncts(h, sl) ==
  IF sl = <<>> THEN <<>>
  ELSE decomposeCNF(h[Head(sl)].expr) \o AllConjuncts(h, Tail(sl))

FirstCallEnded == entry = "pushdownOperators" /\ run = 1 /\ pc \in {"done", "raised"}

\* C1: pushdownOperators(P) returns a plan that yields the same multiset of
\* result rows as P, for every input plan P.
C1_PushdownEquivalent ==
  FirstCallEnded =>
    /\ pc = "done"
    /\ SameRows(Eval(heap, root), Eval(input.heap, input.root))

\* C3: after pushdownOperators(P), every conjunct of a Select of P whose
\* attributes all belong to one base relation r is applied by a reachable Select
\* that sits directly above a TableScan of r.
C3_SingleRelationPushed ==
  (entry = "pushdownOperators" /\ run = 1 /\ pc = "done") =>
    \A s \in SelectsOf(input.heap, input.root) :
      \A k \in DOMAIN input.heap[s].expr :
        LET c == input.heap[s].expr[k] IN
        Cardinality(ExprRels(<<c>>)) = 1 =>
          \E t \in Reach(heap, root) :
             /\ heap[t].op = "TableScan"
             /\ {heap[t].rel} = ExprRels(<<c>>)
             /\ AppliesAbove(heap, root, c, t)

\* C5: a second pushdownOperators call on the first call's output keeps every
\* single-relation predicate that sat in a Select directly above its relation's
\* scan in a Select directly above that same scan.
C5_PlacementStable ==
  (entry = "pushdownOperators" /\ run = 2 /\ pc = "done") =>
    \A t \in Reach(out1.heap, out1.root) :
      \A c \in Atoms :
        ( /\ out1.heap[t].op = "TableScan"
          /\ ExprRels(<<c>>) = {out1.heap[t].rel}
          /\ AppliesAbove(out1.heap, out1.root, c, t) )
        => AppliesAbove(heap, root, c, t)

\* C10: decompSelects(selectList) returns a list with one atomic predicate per
\* top-level conjunct of every Select in selectList (an empty list for an empty
\* selectList).
C10_DecompAllSelects ==
  (entry = "pushdownOperators" /\ pc = "place") =>
    /\ ~decompList.none
    /\ [k \in DOMAIN decompList.list |-> heap[decompList.list[k]].expr]
         = AllConjuncts(heap, selectList)

\* ----------------------------------------------- claims on the join order
\* The base relations of the scans of a built plan.
RECURSIVE Leaves(_)
Leaves(t) ==
  IF t.op = "TableScan" THEN {t.rel}
  ELSE UNION {Leaves(t.kids[k]) : k \in DOMAIN t.kids}

\* The atomic predicates the Join nodes of a built plan apply.
RECURSIVE JoinAtoms(_)
JoinAtoms(t) ==
  (IF t.op = "Join" THEN Range(t.expr) ELSE {})
    \cup UNION {JoinAtoms(t.kids[k]) : k \in DOMAIN t.kids}

\* The atomic predicates of the input plan that span two or more relations:
\* conjuncts of Join expressions and of Select expressions.
InputPreds ==
  {c \in UNION {Range(input.heap[n].expr) :
                  n \in {x \in Reach(input.heap, input.root) :
                           input.heap[x].op \in {"BNLJoin", "NLJoin", "Select"}}} :
     Cardinality(ExprRels(<<c>>)) >= 2}

Methods == {"block-nested-loops", "nested-loops"}

\* C2: pickJoinOrder returns the memo entry of the full relation set, a plan
\* (not None) whose base relations are exactly those of the input plan.
C2_ReturnsFullPlan ==
  (entry = "pickJoinOrder" /\ pc = "done" /\ relations # <<>>) =>
    /\ result # NoTree
    /\ result = optDict[relations]
    /\ Leaves(result) = Range(relations)

\* C4: pass 1 writes optDict[{r}] as TableScan(r) wrapped in one Select with the
\* conjunction of the select predicates keyed by {r}, or as the bare scan when
\* there is none; for a single relation with one filter pickJoinOrder completes
\* without error and returns Select(TableScan(r)).
C4_Pass1Entries ==
  entry = "pickJoinOrder" =>
    /\ \A k \in DOMAIN relations :
         LET r == relations[k] IN
         /\ (pc \in {"pass1", "raised"} /\ npass = 1 /\ ri = k) => pc = "pass1"
         /\ <<r>> \in DOMAIN optDict =>
              optDict[<<r>>] =
                IF <<r>> \in DOMAIN selectTablesDict
                THEN PlanSelect(PlanTableScan(r), combineSelects(selectTablesDict[<<r>>]))
                ELSE PlanTableScan(r)
    /\ (Len(relations) = 1 /\ DOMAIN selectTablesDict # {} /\ pc \in {"done", "raised"}) =>
         /\ pc = "done"
         /\ result.op = "Select" /\ result.kids = <<PlanTableScan(relations[1])>>

\* C6: given an oracle that answers the same for the same candidate, the plan
\* stored as optDict[S] (|S| >= 2) costs no more than any candidate built for
\* S: both method variants of every split (S \ {rel}, rel), rel in S.
C6_CheapestStored ==
  \A S \in DOMAIN optDict :
    (Len(S) >= 2 /\ \E c \in cands : c.key = S) =>
      /\ \A rel \in Range(S) : \A m \in Methods :
           \E c \in cands : c.key = S /\ c.rel = rel /\ c.plan.method = m
      /\ \E b \in cands :
           /\ b.plan = optDict[S]
           /\ \A c \in cands : b.cost <= c.cost

\* A three-relation entry was stored whose winner is a nested-loops variant
\* of a split other than the last, strictly cheaper than another candidate.
C6_Witness ==
  \E S \in DOMAIN optDict :
    /\ Len(S) = 3
    /\ \A c \in cands : c.key = S
    /\ \E b, c \in cands :
         /\ b.plan = optDict[S] /\ b.cost < c.cost
         /\ b.plan.method = "nested-loops" /\ b.rel # S[3]

\* C7: every memo entry stored under key S is a plan whose TableScan leaves are
\* exactly the relations of S.
C7_SubsetCoverage ==
  \A S \in DOMAIN optDict :
    /\ optDict[S] # NoTree
    /\ Leaves(optDict[S]) = Range(S)

\* Entries of size 1, 2 and 3 are in the memo.
C7_Witness ==
  /\ \E S \in DOMAIN optDict : Len(S) = 3
  /\ \E S \in DOMAIN optDict : Len(S) = 2

\* C8: called on a plan whose relation set is empty, pickJoinOrder raises; it
\* never gets past its first lines and never completes normally.
C8_EmptyRelationsFatal ==
  (entry = "pickJoinOrder" /\ planRelations(input.heap, input.root) = <<>>) =>
    /\ pc \in {"start", "raised"}
    /\ pc = "raised" => err # ""

\* The call on the plan without relations has raised.
C8_Witness ==
  /\ entry = "pickJoinOrder"
  /\ planRelations(input.heap, input.root) = <<>>
  /\ pc = "raised" /\ err = "AttributeError"

\* C9: the join conditions of optDict[S] (|S| >= 2) apply every atomic predicate
\* of the input plan that spans two or more relations, all in S, apply none
\* that names an attribute of a relation outside S, and are the constant
\* "True" when no such predicate connects the two sides of the join.
C9_JoinConditions ==
  \A S \in DOMAIN optDict :
    Len(S) >= 2 =>
      LET t == optDict[S]
          required == {c \in InputPreds : ExprRels(<<c>>) \subseteq Range(S)}
          L == Leaves(t.kids[1])
          R == Leaves(t.kids[2])
          connecting == {c \in required :
                           ExprRels(<<c>>) \cap L # {} /\ ExprRels(<<c>>) \cap R # {}}
      IN /\ required \subseteq JoinAtoms(t)
         /\ \A c \in JoinAtoms(t) : ExprRels(<<c>>) \subseteq Range(S)
         /\ connecting = {} => t.expr = <<"True">>

====
